---- MODULE Spec2Model ----
(***************************************************************************)
(* export-cloudflare-dns (src/src/main.rs): one run of the program.        *)
(*   check_environment -> get_domains (pagination loop) -> create the      *)
(*   ./domains directory -> export_dns for each listed domain.             *)
(* The provider (HTTP replies) and the operating system (file and          *)
(* directory operations that may fail) are the nondeterministic inputs.    *)
(***************************************************************************)
EXTENDS Integers, Sequences, FiniteSets, TLC

(* ------------------------------ bounds -------------------------------- *)

\* Largest page / total_pages value a listing reply may report.
MaxPage == 2

\* Cap on the listing requests of one run (the loop itself has no bound).
MaxRequests == MaxPage + 1

(* ------------------------- environment values -------------------------- *)

\* env::var(..) is Err when the variable is not present.
NotPresent == "<not present>"

\* A value holding a byte HeaderValue::from_str refuses (a line break).
ControlValue == "key\nwith line break"

EnvValues == {NotPresent, "", "NULL", "0123abcd", ControlValue}

EnvKeys == {"CLOUDFLARE_API_KEY", "CLOUDFLARE_USER_EMAIL"}

\* dotenv sets a variable of the file only when the process does not have it.
dotenv_load(environ, loaded) ==
    [k \in EnvKeys |-> IF environ[k] = NotPresent THEN loaded[k] ELSE environ[k]]

(* ------------------------------ provider ------------------------------- *)

d1 == [id |-> "023e105f", name |-> "example.com"]
d2 == [id |-> "9a7806e1", name |-> "example.org"]
d3 == [id |-> "c2547eb7", name |-> "example.com"]

Domains == {d1, d2, d3}

\* The zones the account holds on each page (two zones may carry one name).
ZonesOnPage(p) ==
    IF p = 0 THEN << >>
    ELSE IF p % 2 = 1 THEN << d1 >>
    ELSE << d2, d3 >>

\* The export body of each zone, as a sequence of bytes.
ZoneFile(id) ==
    IF id = d1.id THEN << 65, 32, 49 >>
    ELSE IF id = d2.id THEN << >>
    ELSE << 65, 32 >>

\* What is in ./domains/example.com.txt when an earlier run left a file.
OldContent == << 79, 76, 68, 33 >>

ListStatuses == {200, 401, 403}

ExportStatuses == {200, 299, 300, 403}

NoReply ==
    [kind |-> "none", status |-> 0, decodable |-> FALSE, success |-> FALSE,
     page |-> 0, total_pages |-> 0, result |-> << >>]

\* Every reply to GET zones?page=N: a transport failure, or an HTTP response
\* whose body decodes to a CloudflareResponse or does not.
ListReplies ==
    {[NoReply EXCEPT !.kind = "transport"]}
    \cup {[NoReply EXCEPT !.kind = "http", !.status = s] : s \in ListStatuses}
    \cup {[kind |-> "http", status |-> s, decodable |-> TRUE, success |-> ok,
           page |-> p, total_pages |-> t, result |-> ZonesOnPage(p)] :
            s \in ListStatuses, ok \in BOOLEAN, p \in 0..MaxPage, t \in 0..MaxPage}

(* ------------------------------- state -------------------------------- *)

VARIABLES
    pc,              \* where main is
    exit_code,       \* -1 while running, then the process exit code
    msg,             \* first line of the last diagnostic printed
    env,             \* the process environment (the two variables)
    dir_exists,      \* ./domains exists
    files,           \* path -> [exists, data]
    current_page,    \* get_domains: current_page
    all_domains,     \* get_domains: all_domains
    response,        \* get_domains: the reply being handled
    domains,         \* main: the value get_domains returned
    listed,          \* get_domains has returned Ok
    next_idx,        \* main: position of the for loop in domains
    requests,        \* history: page of every listing request sent
    pages,           \* history: result_info and result of every accepted reply
    export_requests, \* history: zone id of every export request sent
    writes,          \* history: position and path of every File::create that succeeded
    results,         \* history: "ok" / "err" of every export_dns call
    export_status,   \* history: HTTP status of the last export response, 0 if none
    fetched,         \* history: name -> last body read from a 2xx export
    mkdirs           \* history: number of fs::create_dir calls that succeeded

vars == << pc, exit_code, msg, env, dir_exists, files, current_page, all_domains,
           response, domains, listed, next_idx, requests, pages, export_requests,
           writes, results, export_status, fetched, mkdirs >>

(* -------------------------- pure functions ----------------------------- *)

\* The file named after the zone id instead of the zone name.
file_path_by_id(domain) == "./domains/" \o domain.id \o ".txt"

\* format!("./domains/{}.txt", domain.name)
file_path(domain) == "./domains/" \o domain.name \o ".txt"

Paths == {file_path(d) : d \in Domains}

Names == {d.name : d \in Domains}

NoFile == [exists |-> FALSE, data |-> << >>]

\* A status check that takes every status below 400 for a success.
is_success_below_400(status) == status >= 200 /\ status <= 399

\* response.status().is_success()
is_success(status) == status >= 200 /\ status <= 299

\* The comparison of the last page turned round.
is_last_page_turned(page_info) == page_info.page <= page_info.total_pages

\* page_info.page >= page_info.total_pages
is_last_page(page_info) == page_info.page >= page_info.total_pages

\* The next page without the + 1.
next_page_same(page_info) == page_info.page

\* current_page = page_info.page + 1
next_page(page_info) == page_info.page + 1

\* A page put in front of the collection instead of behind it.
extend_in_front(all, result) == result \o all

\* all_domains.extend(cf_response.result)
extend(all, result) == all \o result

\* An unsuccessful envelope taken as a failure only when it has no result.
api_failed_when_empty(reply) == ~reply.success /\ reply.result = << >>

\* !cf_response.success
api_failed(reply) == ~reply.success

\* The placeholder test with && in the place of ||.
is_placeholder_both(api_key, email) == api_key = "NULL" /\ email = "NULL"

\* api_key == "NULL" || email == "NULL"
is_placeholder(api_key, email) == api_key = "NULL" \/ email = "NULL"

\* key.is_empty() || key == "NULL"
is_blank(v) == v = "" \/ v = "NULL"

\* HeaderValue::from_str
header_value_ok(v) == v # ControlValue

\* check_environment, after the file was found or not: the exit it takes, if any.
check_environment(custom, exists, load_ok, environ) ==
    IF custom /\ ~exists THEN
        [exit |-> TRUE, msg |-> "Error: Specified environment file not found"]
    ELSE IF custom /\ ~load_ok THEN
        [exit |-> TRUE, msg |-> "Error: Failed to load environment variables"]
    ELSE IF ~custom /\ ~(exists /\ load_ok) THEN
        [exit |-> TRUE, msg |-> "No environment (.env) file found."]
    ELSE IF environ["CLOUDFLARE_API_KEY"] = NotPresent THEN
        [exit |-> TRUE, msg |-> "Error: CLOUDFLARE_API_KEY not found in environment"]
    ELSE IF environ["CLOUDFLARE_USER_EMAIL"] = NotPresent THEN
        [exit |-> TRUE, msg |-> "Error: CLOUDFLARE_USER_EMAIL not found in environment"]
    ELSE IF is_placeholder(environ["CLOUDFLARE_API_KEY"],
                           environ["CLOUDFLARE_USER_EMAIL"]) THEN
        [exit |-> TRUE, msg |-> "Warning: You appear to be using default placeholder values"]
    ELSE
        [exit |-> FALSE, msg |-> "[Loaded environment data]"]

\* create_client: "exit" (process::exit(1)), "err" (Client build failed) or "ok".
create_client(environ, build_ok) ==
    LET key == environ["CLOUDFLARE_API_KEY"]
        email == environ["CLOUDFLARE_USER_EMAIL"]
    IN  IF key = NotPresent THEN
            [kind |-> "exit", msg |-> "Error: CLOUDFLARE_API_KEY environment variable not found"]
        ELSE IF is_blank(key) THEN
            [kind |-> "exit", msg |-> "Error: Cloudflare API key is empty or set to NULL"]
        ELSE IF email = NotPresent THEN
            [kind |-> "exit", msg |-> "Error: CLOUDFLARE_USER_EMAIL environment variable not found"]
        ELSE IF is_blank(email) THEN
            [kind |-> "exit", msg |-> "Error: Cloudflare user email is empty or set to NULL"]
        ELSE IF ~header_value_ok(email) THEN
            [kind |-> "exit", msg |-> "Error: Invalid email format for Cloudflare header"]
        ELSE IF ~header_value_ok(key) THEN
            [kind |-> "exit", msg |-> "Error: Invalid API key format for Cloudflare header"]
        ELSE IF ~build_ok THEN
            [kind |-> "err", msg |-> "Error: builder error"]
        ELSE
            [kind |-> "ok", msg |-> ""]

\* client.get(..).send().await: Err only for a transport failure, and such an
\* error carries no status (a 4xx/5xx response is Ok(resp)).
send(reply) ==
    IF reply.kind = "transport"
    THEN [ok |-> FALSE, is_status |-> FALSE, status |-> 0]
    ELSE [ok |-> TRUE, is_status |-> FALSE, status |-> reply.status]

\* One iteration of the loop of get_domains on the reply to its request.
get_domains_step(reply, all) ==
    LET sent == send(reply)
        stay == [next |-> "exit", msg |-> "", all_domains |-> all, current_page |-> 0]
    IN  IF ~sent.ok THEN
            IF sent.is_status /\ sent.status \in {401, 403}
            THEN [stay EXCEPT !.msg = "Error: Authentication failed with Cloudflare API"]
            ELSE [stay EXCEPT !.msg = "Error: Failed to connect to Cloudflare API"]
        ELSE IF ~reply.decodable THEN
            [stay EXCEPT !.msg = "Error: Failed to parse Cloudflare API response"]
        ELSE IF api_failed(reply) THEN
            [stay EXCEPT !.msg = "Error: Cloudflare API returned an unsuccessful response"]
        ELSE IF is_last_page(reply) THEN
            [next |-> "return", msg |-> "Fetched domains.",
             all_domains |-> extend(all, reply.result), current_page |-> 0]
        ELSE
            [next |-> "continue", msg |-> "Fetching batch of DNS records ...",
             all_domains |-> extend(all, reply.result),
             current_page |-> next_page(reply)]

\* The file opened for writing without truncating the one that exists.
file_create_no_truncate(fs, dir, path, ok) ==
    IF ok /\ dir THEN [fs EXCEPT ![path] = [exists |-> TRUE, data |-> fs[path].data]]
    ELSE fs

\* File::create(path): creates the file, or truncates the one that exists.
file_create(fs, dir, path, ok) ==
    IF ok /\ dir THEN [fs EXCEPT ![path] = [exists |-> TRUE, data |-> << >>]] ELSE fs

\* file.write_all(data) from offset 0 of the open file, of which `written`
\* bytes get out before the failure (all of them when there is none).
write_all(fs, path, data, written) ==
    LET old == fs[path].data
    IN  [fs EXCEPT ![path] =
            [exists |-> TRUE,
             data |-> SubSeq(data, 1, written) \o SubSeq(old, written + 1, Len(old))]]

\* What the provider and the file system do to one export_dns call.
ExportOutcomes(domain) ==
    LET body == ZoneFile(domain.id)
        none == [build_ok |-> FALSE, send_ok |-> FALSE, status |-> 0, text_ok |-> FALSE,
                 create_ok |-> FALSE, written |-> 0]
    IN  {none}
        \cup {[none EXCEPT !.build_ok = TRUE]}
        \cup {[none EXCEPT !.build_ok = TRUE, !.send_ok = TRUE, !.status = s] :
                s \in ExportStatuses}
        \cup {[none EXCEPT !.build_ok = TRUE, !.send_ok = TRUE, !.status = s,
                            !.text_ok = TRUE] : s \in ExportStatuses}
        \cup {[build_ok |-> TRUE, send_ok |-> TRUE, status |-> s, text_ok |-> TRUE,
               create_ok |-> TRUE, written |-> w] :
                s \in ExportStatuses, w \in 0..Len(body)}

\* export_dns(domain) under outcome o, on the file system (fs, dir).
export_dns(domain, o, fs, dir) ==
    LET body == ZoneFile(domain.id)
        path == file_path(domain)
        fail == [ok |-> FALSE, msg |-> "", files |-> fs, requested |-> FALSE,
                 status |-> 0, fetched |-> FALSE, created |-> FALSE]
        created == file_create(fs, dir, path, o.create_ok)
    IN  IF create_client(env, o.build_ok).kind # "ok" THEN
            [fail EXCEPT !.msg = "Error: builder error"]
        ELSE IF ~o.send_ok THEN
            [fail EXCEPT !.msg = "Error: Failed to fetch DNS records for domain",
                         !.requested = TRUE]
        ELSE IF ~is_success(o.status) THEN
            [fail EXCEPT !.msg = "Error: Cloudflare API returned status code",
                         !.requested = TRUE, !.status = o.status]
        ELSE IF ~o.text_ok THEN
            [fail EXCEPT !.msg = "Error: Failed to read DNS records for domain",
                         !.requested = TRUE, !.status = o.status]
        ELSE IF ~(o.create_ok /\ dir) THEN
            [fail EXCEPT !.msg = "Error: Failed to create file",
                         !.requested = TRUE, !.status = o.status, !.fetched = TRUE]
        ELSE IF o.written < Len(body) THEN
            [fail EXCEPT !.msg = "Error: Failed to write DNS records for domain",
                         !.files = write_all(created, path, body, o.written),
                         !.requested = TRUE, !.status = o.status, !.fetched = TRUE,
                         !.created = TRUE]
        ELSE
            [ok |-> TRUE, msg |-> "Successfully exported DNS records",
             files |-> write_all(created, path, body, Len(body)),
             requested |-> TRUE, status |-> o.status, fetched |-> TRUE,
             created |-> TRUE]

\* The result of export_dns dropped, the loop going on to the next domain.
after_export_ignored(ok) == "export"

\* main, line 71: export_dns(&domain).await? -- an Err leaves main (exit code 1).
after_export(ok) == IF ok THEN "export" ELSE "exited"

(* ------------------------------- Init ---------------------------------- *)

Init ==
    /\ pc = "check_environment"
    /\ exit_code = -1
    /\ msg = ""
    /\ env \in [EnvKeys -> EnvValues]
    /\ dir_exists \in BOOLEAN
    /\ files \in {[p \in Paths |-> NoFile],
                  [p \in Paths |-> IF p = file_path(d1) /\ dir_exists
                                   THEN [exists |-> TRUE, data |-> OldContent]
                                   ELSE NoFile]}
    /\ current_page = 0
    /\ all_domains = << >>
    /\ response = NoReply
    /\ domains = << >>
    /\ listed = FALSE
    /\ next_idx = 1
    /\ requests = << >>
    /\ pages = << >>
    /\ export_requests = << >>
    /\ writes = << >>
    /\ results = << >>
    /\ export_status = 0
    /\ fetched = [n \in Names |-> [has |-> FALSE, body |-> << >>]]
    /\ mkdirs = 0

(* ------------------------------ actions -------------------------------- *)

\* main line 53: check_environment().
CheckEnvironment ==
    /\ pc = "check_environment"
    /\ \E custom \in BOOLEAN, exists \in BOOLEAN, load_ok \in BOOLEAN,
          loaded \in [EnvKeys -> EnvValues] :
        LET environ == IF exists /\ load_ok THEN dotenv_load(env, loaded) ELSE env
            r == check_environment(custom, exists, load_ok, environ)
        IN  /\ env' = environ
            /\ msg' = r.msg
            /\ pc' = IF r.exit THEN "exited" ELSE "get_domains"
            /\ exit_code' = IF r.exit THEN 1 ELSE exit_code
    /\ UNCHANGED << dir_exists, files, current_page, all_domains, response, domains,
                    listed, next_idx, requests, pages, export_requests, writes,
                    results, export_status, fetched, mkdirs >>

\* get_domains lines 147-151: the locals and the client.
GetDomainsEnter ==
    /\ pc = "get_domains"
    /\ \E build_ok \in BOOLEAN :
        LET c == create_client(env, build_ok)
        IN  /\ pc' = IF c.kind = "ok" THEN "list" ELSE "exited"
            /\ exit_code' = IF c.kind = "ok" THEN exit_code ELSE 1
            /\ msg' = IF c.kind = "ok" THEN msg ELSE c.msg
    /\ current_page' = 1
    /\ all_domains' = << >>
    /\ UNCHANGED << env, dir_exists, files, response, domains, listed, next_idx,
                    requests, pages, export_requests, writes, results,
                    export_status, fetched, mkdirs >>

\* get_domains lines 153-213: one request and the handling of its reply.
ListPage ==
    /\ pc = "list"
    /\ Len(requests) < MaxRequests
    /\ \E reply \in ListReplies :
        LET r == get_domains_step(reply, all_domains)
        IN  /\ requests' = Append(requests, current_page)
            /\ msg' = r.msg
            /\ all_domains' = r.all_domains
            /\ pages' = IF r.next = "exit" THEN pages
                        ELSE Append(pages, [page |-> reply.page,
                                            total_pages |-> reply.total_pages,
                                            result |-> reply.result])
            /\ current_page' = IF r.next = "continue" THEN r.current_page
                               ELSE current_page
            /\ response' = IF r.next = "return" THEN NoReply ELSE reply
            /\ pc' = CASE r.next = "exit" -> "exited"
                       [] r.next = "continue" -> "list"
                       [] r.next = "return" -> "mkdir"
            /\ exit_code' = IF r.next = "exit" THEN 1 ELSE exit_code
            /\ domains' = IF r.next = "return" THEN r.all_domains ELSE domains
            /\ listed' = (r.next = "return")
    /\ UNCHANGED << env, dir_exists, files, next_idx, export_requests, writes,
                    results, export_status, fetched, mkdirs >>

\* main lines 66-68: create ./domains when it does not exist.
MakeDir ==
    /\ pc = "mkdir"
    /\ \E mk_ok \in BOOLEAN :
        IF dir_exists THEN
            /\ pc' = "export"
            /\ UNCHANGED << dir_exists, mkdirs, exit_code, msg >>
        ELSE IF mk_ok THEN
            /\ pc' = "export"
            /\ dir_exists' = TRUE
            /\ mkdirs' = mkdirs + 1
            /\ UNCHANGED << exit_code, msg >>
        ELSE
            /\ pc' = "exited"
            /\ exit_code' = 1
            /\ msg' = "Error: Os"
            /\ UNCHANGED << dir_exists, mkdirs >>
    /\ UNCHANGED << env, files, current_page, all_domains, response, domains, listed,
                    next_idx, requests, pages, export_requests, writes, results,
                    export_status, fetched >>

\* main lines 70-72: export_dns(&domain).await? for the next domain.
ExportDns ==
    /\ pc = "export"
    /\ next_idx <= Len(domains)
    /\ LET domain == domains[next_idx]
       IN  \E o \in ExportOutcomes(domain) :
            LET r == export_dns(domain, o, files, dir_exists)
            IN  /\ files' = r.files
                /\ msg' = r.msg
                /\ results' = Append(results, IF r.ok THEN "ok" ELSE "err")
                /\ export_requests' = IF r.requested
                                      THEN Append(export_requests, domain.id)
                                      ELSE export_requests
                /\ export_status' = r.status
                /\ writes' = IF r.created
                             THEN Append(writes, [idx |-> next_idx,
                                                  path |-> file_path(domain)])
                             ELSE writes
                /\ fetched' = IF r.fetched
                              THEN [fetched EXCEPT ![domain.name] =
                                        [has |-> TRUE, body |-> ZoneFile(domain.id)]]
                              ELSE fetched
                /\ pc' = after_export(r.ok)
                /\ exit_code' = IF after_export(r.ok) = "exited" THEN 1 ELSE exit_code
                /\ next_idx' = next_idx + 1
    /\ UNCHANGED << env, dir_exists, current_page, all_domains, response, domains,
                    listed, requests, pages, mkdirs >>

\* main lines 74-76: the loop is over, Ok(()).
MainFinish ==
    /\ pc = "export"
    /\ next_idx > Len(domains)
    /\ pc' = "done"
    /\ exit_code' = 0
    /\ msg' = "Domain DNS records complete."
    /\ UNCHANGED << env, dir_exists, files, current_page, all_domains, response,
                    domains, listed, next_idx, requests, pages, export_requests,
                    writes, results, export_status, fetched, mkdirs >>

Next ==
    \/ CheckEnvironment
    \/ GetDomainsEnter
    \/ ListPage
    \/ MakeDir
    \/ ExportDns
    \/ MainFinish

Spec == Init /\ [][Next]_vars

(* -------------------------- helper definitions ------------------------- *)

Max(a, b) == IF a >= b THEN a ELSE b

UpTo(n) == [j \in 1..n |-> j]

RECURSIVE ConcatResults(_)
ConcatResults(ps) ==
    IF ps = << >> THEN << >> ELSE ps[1].result \o ConcatResults(Tail(ps))

\* Every accepted reply reported as page the page that was requested.
EchoAll == \A j \in 1..Len(pages) : pages[j].page = requests[j]

\* Every accepted reply declared total_pages = k.
AllDeclare(k) == \A j \in 1..Len(pages) : pages[j].total_pages = k

\* The largest total_pages an accepted reply declared (0 when there is none).
MaxTotalPages ==
    IF pages = << >> THEN 0
    ELSE CHOOSE t \in 0..MaxPage :
            /\ \E j \in 1..Len(pages) : pages[j].total_pages = t
            /\ \A j \in 1..Len(pages) : pages[j].total_pages <= t

CredentialsValid ==
    \A k \in EnvKeys : env[k] \notin {NotPresent, "", "NULL"}

(* ------------------------------- claims -------------------------------- *)

\* C1 (as stated): when get_domains has returned and every reply declared
\* total_pages = k, the requests were exactly the pages 1..k in order and the
\* returned sequence is the concatenation of the results in page order.
C1_AsStated ==
    listed =>
        \A k \in 0..MaxPage :
            AllDeclare(k) =>
                /\ requests = UpTo(k)
                /\ domains = ConcatResults(pages)

\* C1 (amended): when get_domains has returned, every reply declared
\* total_pages = k and reported as page the page requested, the requests were
\* exactly the pages 1..max(1, k) in order (one request also when k = 0), each
\* was answered by one accepted reply, and the returned sequence is the
\* concatenation of the results in page order.
C1_Concatenation ==
    listed =>
        \A k \in 0..MaxPage :
            (AllDeclare(k) /\ EchoAll) =>
                /\ requests = UpTo(Max(1, k))
                /\ Len(pages) = Len(requests)
                /\ domains = ConcatResults(pages)

C1_Witness ==
    /\ listed
    /\ EchoAll
    /\ AllDeclare(2)
    /\ requests = << 1, 2 >>
    /\ domains = << d1, d2, d3 >>

\* C2: nothing of the export phase (export request, directory creation, file
\* creation, export_dns call) has happened unless get_domains has returned the
\* full collection after a reply with page >= total_pages; while the Lister
\* runs the file system is untouched; and once an export request was sent no
\* listing request is sent any more.
C2_ExportAfterListing ==
    /\ [](
        (export_requests # << >> \/ mkdirs > 0 \/ writes # << >> \/ results # << >>
            \/ pc \in {"mkdir", "export", "done"})
        => /\ listed
           /\ pages # << >>
           /\ pages[Len(pages)].page >= pages[Len(pages)].total_pages
           /\ domains = ConcatResults(pages)
           /\ mkdirs <= 1)
    /\ [][ /\ (~listed => /\ files' = files
                          /\ dir_exists' = dir_exists
                          /\ export_requests' = export_requests)
           /\ (export_requests # << >> => requests' = requests)
           /\ (pc = "export" => mkdirs' = mkdirs) ]_vars

C2_Witness ==
    /\ pc = "done"
    /\ Len(requests) = 2
    /\ mkdirs = 1
    /\ Len(export_requests) = 3
    /\ Len(writes) = 3

\* C3 (as stated): whenever get_domains is entered both variables are present,
\* non-empty and different from "NULL".
C3_AsStated ==
    pc = "get_domains" => CredentialsValid

\* C3 (amended): past check_environment both variables are present and
\* different from "NULL" (an empty value passes); past create_client, the first
\* statement of get_domains, and whenever a listing request has been sent,
\* both are also non-empty; with any other pair of values the process has
\* exited with code 1 before any request.
C3_CredentialGate ==
    /\ pc = "get_domains" =>
            \A k \in EnvKeys : env[k] \notin {NotPresent, "NULL"}
    /\ (pc \in {"list", "mkdir", "export", "done"} \/ requests # << >>) =>
            CredentialsValid
    /\ (pc \notin {"check_environment", "get_domains"} /\ ~CredentialsValid) =>
            /\ pc = "exited"
            /\ exit_code = 1
            /\ requests = << >>
            /\ export_requests = << >>

C3_Witness ==
    /\ pc = "exited"
    /\ exit_code = 1
    /\ env["CLOUDFLARE_API_KEY"] = ""
    /\ env["CLOUDFLARE_USER_EMAIL"] = "0123abcd"
    /\ msg = "Error: Cloudflare API key is empty or set to NULL"

\* C4 (as stated): whenever the file of a name exists and an export of that
\* name was fetched, the content is the body fetched last.
C4_AsStated ==
    \A d \in Domains :
        (files[file_path(d)].exists /\ fetched[d.name].has) =>
            files[file_path(d)].data = fetched[d.name].body

\* C4 (amended): when the latest export_dns call for a name returned success,
\* the file of that name exists and its content is exactly the body that call
\* fetched, with nothing of an earlier content.
C4_ContentAfterSuccess ==
    \A j \in 1..Len(results) :
        (/\ results[j] = "ok"
         /\ \A i \in (j + 1)..Len(results) : domains[i].name # domains[j].name)
        => /\ files["./domains/" \o domains[j].name \o ".txt"].exists
           /\ files["./domains/" \o domains[j].name \o ".txt"].data
                = ZoneFile(domains[j].id)
           /\ fetched[domains[j].name] = [has |-> TRUE, body |-> ZoneFile(domains[j].id)]

C4_Witness ==
    /\ domains = << d1, d2, d3 >>
    /\ results = << "ok", "ok", "ok" >>
    /\ files["./domains/example.com.txt"].data = ZoneFile(d3.id)
    /\ Len(OldContent) > Len(ZoneFile(d1.id))
    /\ mkdirs = 0

\* C5: an export_dns call whose response has a status outside 200..299 returns
\* failure and leaves every file and the directory as they were.
C5_Non2xxFrame ==
    [][ (/\ Len(results') = Len(results) + 1
         /\ export_status' # 0
         /\ ~(export_status' >= 200 /\ export_status' <= 299))
        => /\ results'[Len(results')] = "err"
           /\ files' = files
           /\ dir_exists' = dir_exists
           /\ writes' = writes ]_vars

C5_Witness ==
    /\ results = << "ok", "err" >>
    /\ export_status = 300
    /\ domains[1] = d2
    /\ domains[2] = d3
    /\ files["./domains/example.com.txt"] = [exists |-> TRUE, data |-> OldContent]
    /\ files["./domains/example.org.txt"] = [exists |-> TRUE, data |-> << >>]

\* C6: when a listing reply decodes to an envelope with success = false, the
\* process has exited with code 1; that request is the last one, nothing was
\* returned to main and nothing of the export phase has happened.
C6_UnsuccessfulIsFatal ==
    (response.kind = "http" /\ response.decodable /\ ~response.success) =>
        /\ pc = "exited"
        /\ exit_code = 1
        /\ Len(requests) = Len(pages) + 1
        /\ ~listed
        /\ domains = << >>
        /\ export_requests = << >>
        /\ mkdirs = 0
        /\ writes = << >>
        /\ results = << >>

C6_Witness ==
    /\ response.kind = "http"
    /\ response.decodable
    /\ ~response.success
    /\ response.result # << >>
    /\ Len(requests) = 2
    /\ all_domains # << >>
    /\ pc = "exited"

\* C7: when export_dns failed for the domain at position i, that call is the
\* last one: the process has exited with code 1, no request and no file
\* creation was made for a later position, and every earlier call succeeded.
C7_FirstFailureStops ==
    \A i \in 1..Len(results) :
        results[i] = "err" =>
            /\ i = Len(results)
            /\ pc = "exited"
            /\ exit_code = 1
            /\ next_idx = i + 1
            /\ Len(export_requests) <= i
            /\ \A w \in 1..Len(writes) : writes[w].idx <= i
            /\ \A j \in 1..(i - 1) : results[j] = "ok"

C7_Witness ==
    /\ results = << "ok", "err" >>
    /\ Len(domains) = 3
    /\ Len(export_requests) = 2
    /\ pc = "exited"
    /\ exit_code = 1

\* C8 (as stated): a listing response with status 401 or 403 is fatal whatever
\* its body: the process has exited with code 1 and nothing of it was accepted.
C8_AsStated ==
    (response.kind = "http" /\ response.status \in {401, 403}) =>
        /\ pc = "exited"
        /\ exit_code = 1

\* C9 (as stated): no path is created by two export_dns calls of one run.
C9_AsStated ==
    \A a, b \in 1..Len(writes) : a # b => writes[a].path # writes[b].path

\* C9 (amended): every export_dns call creates at most one file, and two calls
\* of one run create the same path exactly when their domains carry the same
\* name (a name listed twice has its file written twice).
C9_PathPerName ==
    \A a, b \in 1..Len(writes) :
        /\ (a # b => writes[a].idx # writes[b].idx)
        /\ (writes[a].path = writes[b].path
                <=> domains[writes[a].idx].name = domains[writes[b].idx].name)

C9_Witness ==
    /\ Len(writes) = 3
    /\ writes[1].path = writes[3].path
    /\ writes[1].path # writes[2].path
    /\ domains[1].id # domains[3].id

\* C10 (as stated): the pages requested strictly increase, and there are at
\* most max(1, total_pages) requests.
C10_AsStated ==
    /\ \A a, b \in 1..Len(requests) : a < b => requests[a] < requests[b]
    /\ Len(requests) <= Max(1, MaxTotalPages)

\* C10 (amended): as long as every accepted reply reported as page the page
\* requested, the pages requested are 1, 2, 3, ... and there are at most
\* max(1, T) requests, T the largest total_pages a reply declared; the loop
\* stops by itself, below the cap on requests.
C10_BoundedWhenEchoed ==
    EchoAll =>
        /\ requests = UpTo(Len(requests))
        /\ Len(requests) <= Max(1, MaxTotalPages)
        /\ Len(requests) < MaxRequests

C10_Witness ==
    /\ pc = "done"
    /\ EchoAll
    /\ Len(requests) = 2
    /\ pages[1].total_pages = 2
    /\ pages[2].total_pages = 1

====
